---------------------------- MODULE Spec2Model ----------------------------
(***************************************************************************)
(* A model of packages/react/src/processors/styled.ts: the StyledProcessor *)
(* of linaria (component resolution in the constructor, the variable id    *)
(* allocator, the rule extractor, the two replacements) and the            *)
(* interpolation value validator throwIfInvalid.                           *)
(*                                                                         *)
(* Text that the code only compares or copies (tag names, class names) is  *)
(* a TLA+ string.  Text that the code concatenates, slices into a cache    *)
(* key or sanitises (source, unit, ids) is a sequence of one-character     *)
(* strings, so that "a" + "p" and "ap" + "" are the same key.              *)
(***************************************************************************)
EXTENDS Integers, Sequences, FiniteSets, TLC

VARIABLES
    fs,              \* the file system facts about the importing file's package
    stage,           \* "none" | "ready" | "skipped" | "failed": the constructor's outcome
    params,          \* the params the constructor was called with
    error,           \* the message of the Error thrown by the constructor, or ""
    component,       \* this.component
    dependencies,    \* this.dependencies
    warnings,        \* the console.warn calls of the constructor (import positions)
    options,         \* this.options.variableNameSlug
    variableIdx,     \* #variableIdx
    variablesCache,  \* #variablesCache
    interpolations,  \* this.interpolations
    calls,           \* history: one record per addInterpolation call
    replacement,     \* what this.replacer was last called with (seen: history,
                     \* the number of interpolations recorded by then)
    pc,              \* extractRules: "idle" | "loop" | "returned"
    valueCache,      \* extractRules: the valueCache argument
    ruleArgs,        \* extractRules: the cssText and loc arguments
    value,           \* extractRules: the local `value`
    selector,        \* extractRules: the local `selector`
    iter,            \* extractRules: parity of the number of loop iterations
    rules,           \* extractRules: the returned Rules
    verdicts         \* history: the outcome of each throwIfInvalid call

ctorVars  == <<fs, stage, params, error, component, dependencies, warnings>>
allocVars == <<options, variableIdx, variablesCache, interpolations, calls>>
ruleVars  == <<pc, valueCache, ruleArgs, value, selector, iter, rules>>
vars == <<fs, stage, params, error, component, dependencies, warnings,
          options, variableIdx, variablesCache, interpolations, calls,
          replacement, pc, valueCache, ruleArgs, value, selector, iter, rules,
          verdicts>>

-----------------------------------------------------------------------------
(* Bounds of the model *)

\* the longest importedFrom list of a wrapped identifier
MaxImports == 2
\* the number of addInterpolation calls on one instance
MaxInterp == 3
\* the number of objects of the evaluated-value table that carry __wyw_meta
NObj == 2
\* the number of throwIfInvalid calls in one run
MaxValidate == 2

-----------------------------------------------------------------------------
(* What the base class TaggedTemplateProcessor gives the instance *)

className   == "abc123"
displayName == "Styled1"
slug        == <<"s">>
calleeName  == "styled"

Undefined == [type |-> "undefined"]
Null      == [type |-> "null"]

\* typeof component === 'string'
IsString(c) == c.type = "string"

\* !component
IsFalsy(c) == c.type = "undefined" \/ c.type = "null" \/ (IsString(c) /\ c.value = "")

StringComponent(s) == [type |-> "string", value |-> s]

-----------------------------------------------------------------------------
(* The constructor: which component the tag wraps *)

\* html.elements.html and html.elements.svg of react-html-attributes, cut to a
\* few names each
HtmlElements == {"div", "a"}
SvgElements  == {"circle", "path"}

\* new Set([...html.elements.html, html.elements.svg]): the html names, and
\* the svg array as ONE member (it is not spread, so no svg name is a member)
allTagsSet ==
    {[type |-> "string", value |-> t] : t \in HtmlElements}
        \cup {[type |-> "array", value |-> "html.elements.svg"]}

\* validateParams' isValidParams: constraints are "callee", "*", "..." or a
\* set of alternatives
RECURSIVE isValidParamsFrom(_, _, _)
isValidParamsFrom(ps, constraints, i) ==
    LET length == IF Len(ps) > Len(constraints) THEN Len(ps) ELSE Len(constraints)
    IN  IF i > length THEN TRUE
        ELSE IF i > Len(ps) \/ i > Len(constraints) THEN FALSE
        ELSE LET c == constraints[i]
             IN  IF c = {"..."} THEN TRUE
                 ELSE IF c = {"*"} THEN isValidParamsFrom(ps, constraints, i + 1)
                 ELSE IF ps[i].kind \notin c THEN FALSE
                 ELSE isValidParamsFrom(ps, constraints, i + 1)

isValidParams(ps, constraints) == isValidParamsFrom(ps, constraints, 1)

\* findPackageJSON(importedFrom, filename) ?? selfPkg
importedPkg(imp) ==
    IF imp.pkg = "none" THEN fs.selfPkg ELSE imp.pkg

\* packageJSON?.linaria?.components of importedPkg: "undefined", "empty" (a
\* falsy value that is not undefined) or "glob"
maskOf(imp) ==
    IF importedPkg(imp) = "self" THEN fs.selfMask ELSE imp.otherMask

\* what the catch block of the resolveSync call returns
\* variant: the catch block answers "matched"
onResolveError_Match == TRUE

onResolveError == FALSE

\* the callback of value.importedFrom.some: <<result, warned>>
isMatched(imp) ==
    IF importedPkg(imp) # "none"
    THEN IF importedPkg(imp) = "self" /\ maskOf(imp) = "undefined"
         THEN <<TRUE, FALSE>>
         ELSE IF maskOf(imp) = "glob"
              THEN IF imp.resolves
                   THEN <<imp.matches, FALSE>>
                   ELSE <<onResolveError, TRUE>>
              ELSE <<FALSE, FALSE>>
    ELSE <<FALSE, FALSE>>

\* Array.prototype.some, left to right, stopping at the first match:
\* <<result, the positions that logged a warning>>
RECURSIVE someFrom(_, _)
someFrom(importedFrom, i) ==
    IF i > Len(importedFrom) THEN <<FALSE, {}>>
    ELSE LET r == isMatched(importedFrom[i])
             w == IF r[2] THEN {i} ELSE {}
         IN  IF r[1] THEN <<TRUE, w>>
             ELSE LET rest == someFrom(importedFrom, i + 1)
                  IN  <<rest[1], w \cup rest[2]>>

\* variant: every import source has to match
isSomeMatched_Every(importedFrom) ==
    <<\A i \in 1..Len(importedFrom) : isMatched(importedFrom[i])[1],
      {i \in 1..Len(importedFrom) : isMatched(importedFrom[i])[2]}>>

isSomeMatched(importedFrom) == someFrom(importedFrom, 1)

\* lines 91-168: <<component, dependencies, warnings>> for a tagOp
resolveComponent(tagOp) ==
    IF tagOp.kind = "call" /\ Len(tagOp.args) = 1
    THEN LET v == tagOp.args[1]
         IN  IF v.kind = "FUNCTION"
             THEN <<StringComponent("FunctionalComponent"), <<>>, {}>>
             ELSE IF v.kind = "CONST"
             THEN <<IF v.value.t = "string" THEN StringComponent(v.value.s) ELSE Undefined,
                    <<>>, {}>>
             ELSE IF Len(v.importedFrom) > 0 /\ ~isSomeMatched(v.importedFrom)[1]
                  THEN <<[type |-> "object", node |-> v.ex, nonLinaria |-> TRUE,
                          source |-> v.source],
                         <<>>, isSomeMatched(v.importedFrom)[2]>>
                  ELSE <<[type |-> "object", node |-> v.ex, nonLinaria |-> FALSE,
                          source |-> v.source],
                         <<v>>,
                         IF Len(v.importedFrom) > 0
                         THEN isSomeMatched(v.importedFrom)[2] ELSE {}>>
    ELSE IF tagOp.kind = "member"
    THEN <<StringComponent(tagOp.name), <<>>, {}>>
    ELSE <<Undefined, <<>>, {}>>

\* the constructor's outcome for params ps:
\* [stage, error, component, dependencies, warnings]
construct(ps) ==
    LET fail(st, msg) == [stage |-> st, error |-> msg, component |-> Undefined,
                          dependencies |-> <<>>, warnings |-> {}]
    IN  IF ~isValidParams(ps, <<{"callee"}, {"*"}, {"..."}>>)
        THEN fail("skipped", "")
        ELSE IF ~isValidParams(ps, <<{"callee"}, {"call", "member"}, {"template", "call"}>>)
        THEN fail("failed", "Invalid usage of styled tag")
        ELSE IF ps[3].kind = "call"
        THEN fail("skipped", "")
        ELSE LET r == resolveComponent(ps[2])
             IN  IF IsFalsy(r[1])
                 THEN [stage |-> "failed", error |-> "Invalid usage of styled tag",
                       component |-> Undefined, dependencies |-> <<>>,
                       warnings |-> r[3]]
                 ELSE [stage |-> "ready", error |-> "", component |-> r[1],
                       dependencies |-> r[2], warnings |-> r[3]]

-----------------------------------------------------------------------------
(* The params a constructor call can be given *)

Callee        == [kind |-> "callee"]
Template      == [kind |-> "template"]
CallParam     == [kind |-> "call", args |-> <<>>]
Member(name)  == [kind |-> "member", name |-> name]
Call(args)    == [kind |-> "call", args |-> args]

FunctionValue == [kind |-> "FUNCTION"]
ConstValue(t, s) == [kind |-> "CONST", value |-> [t |-> t, s |-> s]]
LazyValue(importedFrom) ==
    [kind |-> "LAZY", ex |-> "Comp", source |-> "Comp", importedFrom |-> importedFrom]

\* the facts the file system and the resolver hold about one import source
Imports ==
    {imp \in [pkg : {"none", "self", "other"},
              otherMask : {"undefined", "empty", "glob"},
              resolves : BOOLEAN, matches : BOOLEAN] :
        /\ imp.pkg # "other" => imp.otherMask = "undefined"
        /\ imp.matches => imp.resolves}

ImportLists == UNION {[1..n -> Imports] : n \in 0..MaxImports}

FsStates ==
    {f \in [selfPkg : {"none", "self"}, selfMask : {"undefined", "empty", "glob"}] :
        f.selfPkg = "none" => f.selfMask = "undefined"}

MemberTags   == {"div", "circle", "x-foo"}
ConstStrings == {"a", "", "FunctionalComponent"}

Values ==
    {FunctionValue}
        \cup {ConstValue("string", s) : s \in ConstStrings}
        \cup {ConstValue("number", "1")}
        \cup {LazyValue(l) : l \in ImportLists}

ParamsAll ==
    {<<Callee, Member(t), Template>> : t \in MemberTags}
        \cup {<<Callee, Call(<<v>>), Template>> : v \in Values}
        \cup {<<Callee, Call(<<>>), Template>>,
              <<Callee, Call(<<FunctionValue, FunctionValue>>), Template>>,
              <<Callee, Member("div"), CallParam>>,
              <<Callee, Template>>,
              <<Callee, Template, Template>>,
              <<Template, Member("div"), Template>>,
              <<Callee, Member("div"), Template, Template>>}

\* a file of a package cannot import from its own package when it has none
FsAllows(ps) ==
    \A i \in 1..Len(ps) :
        (ps[i].kind = "call" /\ Len(ps[i].args) > 0) =>
            \A k \in 1..Len(ps[i].args) :
                ps[i].args[k].kind = "LAZY" =>
                    \A j \in 1..Len(ps[i].args[k].importedFrom) :
                        ps[i].args[k].importedFrom[j].pkg = "self" => fs.selfPkg = "self"

NoGenerator == [kind |-> "undefined"]

Fresh ==
    /\ variableIdx = 0
    /\ variablesCache = <<>>
    /\ interpolations = <<>>
    /\ calls = <<>>
    /\ replacement = Undefined
    /\ pc = "idle"
    /\ valueCache = Undefined
    /\ ruleArgs = Undefined
    /\ value = 0
    /\ selector = ""
    /\ iter = 0
    /\ rules = <<>>
    /\ verdicts = <<>>

\* new StyledProcessor(params, ...args)
Construct(ps) ==
    /\ stage = "none"
    /\ FsAllows(ps)
    /\ LET r == construct(ps)
       IN  /\ stage' = r.stage
           /\ error' = r.error
           /\ component' = r.component
           /\ dependencies' = r.dependencies
           /\ warnings' = r.warnings
    /\ params' = ps
    /\ UNCHANGED <<fs, allocVars, replacement, ruleVars, verdicts>>

-----------------------------------------------------------------------------
(* The variable id allocator *)

Sources       == {<<"a">>, <<"a", "p">>}
Units         == {<< >>, <<"p">>}
PrecedingCsss == {<< >>, <<"x">>}

RECURSIVE Digits(_)
\* Number.prototype.toString of a counter value
Digits(n) ==
    IF n < 10 THEN <<ToString(n)>> ELSE Digits(n \div 10) \o <<ToString(n % 10)>>

\* slugify of @wyw-in-js/shared: a hash of its argument, one text per argument
slugify(s) == <<"h">> \o s

IdentChars ==
    {"a", "b", "h", "p", "s", "v", "x", "_", "-"} \cup {ToString(d) : d \in 0..9}

\* toValidCSSIdentifier: every character that cannot stand in a CSS identifier
\* becomes an underscore
toValidCSSIdentifier(s) ==
    [i \in 1..Len(s) |-> IF s[i] \in IdentChars THEN s[i] ELSE "_"]

\* getVariableContext without its index getter (reading index is modelled
\* where it is read: it returns #variableIdx and increments it)
getVariableContext(source, unit, precedingCss) ==
    [componentName |-> <<displayName>>,
     componentSlug |-> slug,
     precedingCss  |-> precedingCss,
     processor     |-> <<"StyledProcessor">>,
     source        |-> source,
     unit          |-> unit,
     valueSlug     |-> slugify(source \o unit)]

Lit(c) == [t |-> "lit", v |-> c]
Ph(n)  == [t |-> "ph", v |-> n]

\* the values options.variableNameSlug is configured with: nothing, a
\* function of the context, or a template string
Generators ==
    {NoGenerator}
        \cup {[kind |-> "function", name |-> n] :
                n \in {"fnSource", "fnIndex", "fnEmpty", "fnPreceding"}}
        \cup {[kind |-> "string", pattern |-> pt] :
                pt \in {<<Ph("source"), Lit("-"), Ph("unit")>>,
                        <<Ph("componentSlug"), Lit("-"), Ph("index")>>,
                        <<Ph("nope")>>}}

\* whether the configured generator itself refers to the context's index
ReadsIndex(gen) ==
    \/ gen.kind = "function" /\ gen.name = "fnIndex"
    \/ gen.kind = "string" /\ \E i \in 1..Len(gen.pattern) : gen.pattern[i] = Ph("index")

\* whether the id the generator yields is a function of source and unit alone
DependsOnSourceAndUnitOnly(gen) ==
    \/ gen.kind = "undefined"
    \/ gen.kind = "function" /\ gen.name \in {"fnSource", "fnEmpty"}
    \/ gen.kind = "string" /\ ~ReadsIndex(gen)

\* customSlugFn(context) for the configured functions:
\* <<the text returned, how often it read context.index>>
callSlugFn(name, context, idx) ==
    CASE name = "fnSource"    -> <<context.source \o <<".">> \o context.unit, 0>>
      [] name = "fnIndex"     -> <<<<"v">> \o Digits(idx), 1>>
      [] name = "fnEmpty"     -> <<<< >>, 0>>
      [] name = "fnPreceding" ->
            <<context.precedingCss \o <<"_">> \o context.source \o context.unit, 0>>

RECURSIVE buildSlugFrom(_, _, _)
buildSlugFrom(pattern, args, i) ==
    IF i > Len(pattern) THEN << >>
    ELSE (IF pattern[i].t = "lit" THEN <<pattern[i].v>>
          ELSE IF pattern[i].v \in DOMAIN args THEN args[pattern[i].v]
          ELSE << >>)
         \o buildSlugFrom(pattern, args, i + 1)

\* buildSlug(pattern, args): every [name] is replaced by args[name].toString(),
\* or by nothing when args has no such key
buildSlug(pattern, args) == buildSlugFrom(pattern, args, 1)

\* { ...context }: copies every own property, calling the index getter once
spreadContext(context, idx) ==
    [k \in DOMAIN context \cup {"index"} |->
        IF k = "index" THEN Digits(idx) ELSE context[k]]

\* how often { ...context } reads the index getter
spreadReads == 1

\* getCustomVariableId: [id (<< >> also stands for undefined), idx]
getCustomVariableId(gen, source, unit, precedingCss, idx) ==
    LET context == getVariableContext(source, unit, precedingCss)
    IN  IF gen.kind = "undefined" \/ (gen.kind = "string" /\ gen.pattern = << >>)
        THEN [id |-> << >>, idx |-> idx]
        ELSE IF gen.kind = "function"
        THEN LET r == callSlugFn(gen.name, context, idx)
             IN  [id |-> r[1], idx |-> idx + r[2]]
        ELSE [id |-> buildSlug(gen.pattern, spreadContext(context, idx)),
              idx |-> idx + spreadReads]

\* variant: the cache is never consulted
cacheHas_Never(cache, key) == FALSE

\* this.#variablesCache.has(value)
cacheHas(cache, key) == key \in DOMAIN cache

\* const value = source + unit
cacheKey(source, unit) == source \o unit

cacheSet(cache, key, id) ==
    [k \in DOMAIN cache \cup {key} |-> IF k = key THEN id ELSE cache[k]]

\* getVariableId: [id, idx, cache, hit, custom]
getVariableId(gen, idx, cache, source, unit, precedingCss) ==
    LET key == cacheKey(source, unit)
    IN  IF ~cacheHas(cache, key)
        THEN LET c == getCustomVariableId(gen, source, unit, precedingCss, idx)
             IN  IF c.id # << >>
                 THEN [id |-> toValidCSSIdentifier(c.id), idx |-> c.idx,
                       cache |-> cache, hit |-> FALSE, custom |-> TRUE]
                 ELSE LET id == slug \o <<"-">> \o Digits(c.idx)
                      IN  [id |-> id, idx |-> c.idx + 1,
                           cache |-> cacheSet(cache, key, id),
                           hit |-> FALSE, custom |-> FALSE]
        ELSE [id |-> cache[key], idx |-> idx, cache |-> cache,
              hit |-> TRUE, custom |-> FALSE]

\* addInterpolation(node, precedingCss, source, unit)
AddInterpolation(node, precedingCss, source, unit) ==
    /\ stage = "ready"
    /\ pc # "loop"
    /\ Len(interpolations) < MaxInterp
    /\ LET r == getVariableId(options, variableIdx, variablesCache,
                              source, unit, precedingCss)
       IN  /\ variableIdx' = r.idx
           /\ variablesCache' = r.cache
           /\ interpolations' = Append(interpolations,
                  [id |-> r.id, node |-> node, source |-> source, unit |-> unit])
           /\ calls' = Append(calls,
                  [source |-> source, unit |-> unit, precedingCss |-> precedingCss,
                   id |-> r.id, before |-> variableIdx, after |-> r.idx,
                   hit |-> r.hit, custom |-> r.custom])
    /\ UNCHANGED <<ctorVars, options, replacement, ruleVars, verdicts>>

-----------------------------------------------------------------------------
(* The two replacements *)

\* variant: allTagsSet is not consulted
propsAsIs_NotString(c) == ~IsString(c)

\* typeof this.component !== 'string' || !allTagsSet.has(this.component)
propsAsIs(c) == ~IsString(c) \/ c \notin allTagsSet

\* variant: one vars entry per interpolation node
varsKey_PerNode(interp) == interp.id \o <<"@", interp.node>>

\* the key of one interpolation in propsObj.vars
varsKey(interp) == interp.id

\* the items of one interpolation: the call of its node, then its unit if any
varsItems(interp) ==
    <<[type |-> "call", callee |-> interp.node]>>
        \o (IF interp.unit # << >> THEN <<[type |-> "string", value |-> interp.unit]>>
            ELSE << >>)

RECURSIVE varsFrom(_, _)
\* this.interpolations.forEach(...): a later interpolation overwrites the
\* entry of an earlier one with the same key
varsFrom(interps, n) ==
    IF n = 0 THEN << >>
    ELSE LET before == varsFrom(interps, n - 1)
             key    == varsKey(interps[n])
         IN  [k \in DOMAIN before \cup {key} |->
                IF k = key THEN varsItems(interps[n]) ELSE before[k]]

\* getProps: the entries of propsObj, in insertion order
getProps(c, interps) ==
    <<[key |-> "name", value |-> [type |-> "string", value |-> displayName]],
      [key |-> "class", value |-> [type |-> "string", value |-> className]],
      [key |-> "propsAsIs", value |-> [type |-> "boolean", value |-> propsAsIs(c)]] >>
        \o (IF Len(interps) > 0
            THEN <<[key |-> "vars",
                    value |-> [type |-> "vars", value |-> varsFrom(interps, Len(interps))]] >>
            ELSE << >>)

\* getTagComponentProps: one object property per entry whose value is defined
getTagComponentProps(props) ==
    [type |-> "object",
     properties |-> SelectSeq(props, LAMBDA e : e.value.type # "undefined")]

\* tagExpressionArgument
tagExpressionArgument(c) ==
    IF IsString(c)
    THEN IF c.value = "FunctionalComponent"
         THEN [type |-> "arrow"]
         ELSE [type |-> "string", value |-> c.value]
    ELSE [type |-> "call", callee |-> c.node]

\* tagExpression
tagExpression(c) ==
    [type |-> "call", callee |-> calleeName, arguments |-> <<tagExpressionArgument(c)>>]

\* the value getter: the object an evaluation of the module sees in place of the tag
valueNode(c) ==
    LET noExtendsNode == IsString(c) \/ c.nonLinaria
    IN  [displayName |-> displayName,
         className   |-> className,
         extends     |-> IF ~noExtendsNode
                         THEN [type |-> "call", callee |-> c.node]
                         ELSE Null]

\* the property of the runtime replacement's object with the given key
PropOf(node, key) ==
    LET ps == node.arguments[1].properties
    IN  IF \E i \in 1..Len(ps) : ps[i].key = key
        THEN (ps[CHOOSE i \in 1..Len(ps) : ps[i].key = key]).value
        ELSE Undefined

\* doRuntimeReplacement
DoRuntimeReplacement ==
    /\ stage = "ready"
    /\ pc # "loop"
    /\ replacement' =
          [isPure |-> TRUE,
           seen   |-> Len(interpolations),
           node   |-> [type |-> "call", callee |-> tagExpression(component),
                       arguments |-> <<getTagComponentProps(
                                           getProps(component, interpolations))>>]]
    /\ UNCHANGED <<ctorVars, allocVars, ruleVars, verdicts>>

\* doEvaltimeReplacement
DoEvaltimeReplacement ==
    /\ stage = "ready"
    /\ pc # "loop"
    /\ replacement' = [isPure |-> FALSE, seen |-> Len(interpolations),
                       node |-> valueNode(component)]
    /\ UNCHANGED <<ctorVars, allocVars, ruleVars, verdicts>>

-----------------------------------------------------------------------------
(* extractRules *)

\* the objects of the evaluated-value table that carry __wyw_meta; 0 stands
\* for every value that carries none (undefined, null, anything else)
Objs == 1..NObj

\* value.__wyw_meta.className of object k
metaClassName(k) == "m" \o ToString(k)

\* the valueCache argument: what get(this.component.node.name) returns, and
\* __wyw_meta.extends of every object
ValueCaches == [get : 0..NObj, extends : [Objs -> 0..NObj]]

Locs == {Null, [type |-> "loc", start |-> "1:0"]}

\* hasEvalMeta(value)
hasEvalMeta(v) == v \in Objs

\* variant: the ancestor class is put in front
appendSelector_Prepend(sel, cls) == "." \o cls \o sel

\* selector += `.${value.__wyw_meta.className}`
appendSelector(sel, cls) == sel \o "." \o cls

\* lines 267-277: the call, up to the loop's first test
ExtractRulesCall(vc, cssText, loc) ==
    /\ stage = "ready"
    /\ pc \in {"idle", "returned"}
    /\ valueCache' = vc
    /\ ruleArgs' = [cssText |-> cssText, loc |-> loc]
    /\ selector' = "." \o className
    /\ value' = IF IsString(component) \/ component.nonLinaria THEN 0 ELSE vc.get
    /\ iter' = 0
    /\ rules' = << >>
    /\ pc' = "loop"
    /\ UNCHANGED <<ctorVars, allocVars, replacement, verdicts>>

\* lines 278-281: one iteration of the while loop.  A walk that ends makes at
\* most NObj iterations; beyond them the chain is cyclic, selector grows
\* without end and is no longer recorded, and iter keeps only its parity.
ExtractRulesLoop ==
    /\ pc = "loop"
    /\ hasEvalMeta(value)
    /\ selector' = IF iter < NObj THEN appendSelector(selector, metaClassName(value))
                   ELSE selector
    /\ value' = valueCache.extends[value]
    /\ iter' = IF iter < NObj + 1 THEN iter + 1 ELSE NObj
    /\ UNCHANGED <<ctorVars, allocVars, replacement, pc, valueCache, ruleArgs,
                   rules, verdicts>>

\* lines 283-290: the rule is stored and returned
ExtractRulesReturn ==
    /\ pc = "loop"
    /\ ~hasEvalMeta(value)
    /\ rules' = [s \in {selector} |->
                    [cssText |-> ruleArgs.cssText, className |-> className,
                     displayName |-> displayName,
                     start |-> IF ruleArgs.loc # Null THEN ruleArgs.loc.start
                               ELSE "null"]]
    /\ pc' = "returned"
    /\ UNCHANGED <<ctorVars, allocVars, replacement, valueCache, ruleArgs, value,
                   selector, iter, verdicts>>

-----------------------------------------------------------------------------
(* throwIfInvalid *)

\* the values an interpolation can evaluate to.  message and stack say what
\* value.message and value.stack are: "absent", "empty" (there but falsy) or
\* "text"; serializable says what isSerializable answers.
ValidatedValues ==
    LET plain(t, v) == [t |-> t, v |-> v, serializable |-> FALSE,
                        message |-> "absent", stack |-> "absent"]
    IN  {plain("function", "f"), plain("undefined", ""), plain("null", ""),
         plain("boolean", "true"), plain("boolean", "false"),
         plain("string", ""), plain("string", "red")}
            \cup {plain("number", v) : v \in {"42", "0", "NaN", "Infinity", "-Infinity"}}
            \cup [t : {"object"}, v : {"o"}, serializable : BOOLEAN,
                  message : {"absent", "empty", "text"},
                  stack : {"absent", "empty", "text"}]

\* isSerializable of ./isSerializable
isSerializable(v) == v.serializable

\* Number.isFinite
isFinite(v) == v.t = "number" /\ v.v \in {"42", "0"}

\* the truthiness of a value
Truthy(v) ==
    CASE v.t \in {"undefined", "null"} -> FALSE
      [] v.t = "boolean" -> v.v = "true"
      [] v.t = "string"  -> v.v # ""
      [] v.t = "number"  -> v.v \notin {"0", "NaN"}
      [] OTHER -> TRUE

\* value && typeof value !== 'number' && value.stack && value.message
looksLikeError(v) ==
    Truthy(v) /\ v.t # "number" /\ v.stack = "text" /\ v.message = "text"

\* the first test of throwIfInvalid
accepts(v) ==
    v.t = "function" \/ v.t = "string" \/ (v.t = "number" /\ isFinite(v))
        \/ isSerializable(v)

\* throwIfInvalid(value, ex): "ok", or the error it throws
throwIfInvalid(v) ==
    IF accepts(v) THEN "ok"
    ELSE IF looksLikeError(v) THEN "EvaluationError"
    ELSE "InvalidInterpolationError"

Validate(v) ==
    /\ Len(verdicts) < MaxValidate
    /\ verdicts' = Append(verdicts, [value |-> v, outcome |-> throwIfInvalid(v)])
    /\ UNCHANGED <<ctorVars, allocVars, replacement, ruleVars>>

-----------------------------------------------------------------------------
(* The specifications *)

\* the state a successful new StyledProcessor(ps) leaves
Constructed(ps) ==
    /\ FsAllows(ps)
    /\ construct(ps).stage = "ready"
    /\ stage = "ready"
    /\ params = ps
    /\ error = ""
    /\ component = construct(ps).component
    /\ dependencies = construct(ps).dependencies
    /\ warnings = construct(ps).warnings

NotConstructed ==
    /\ stage = "none"
    /\ params = << >>
    /\ error = ""
    /\ component = Undefined
    /\ dependencies = << >>
    /\ warnings = {}

OwnPackage == [selfPkg |-> "self", selfMask |-> "undefined"]

ForeignImport ==
    [pkg |-> "other", otherMask |-> "undefined", resolves |-> FALSE, matches |-> FALSE]

\* styled.div, styled(() => ...), styled(Comp) with Comp local, styled(Comp)
\* with Comp imported from a package that declares no linaria.components
ParamsReady ==
    {<<Callee, Member("div"), Template>>,
     <<Callee, Call(<<FunctionValue>>), Template>>,
     <<Callee, Call(<<LazyValue(<< >>)>>), Template>>,
     <<Callee, Call(<<LazyValue(<<ForeignImport>>)>>), Template>>}

\* styled.div and styled(Comp)
ParamsAlloc ==
    {<<Callee, Member("div"), Template>>,
     <<Callee, Call(<<LazyValue(<< >>)>>), Template>>}

\* The allocator and the runtime replacement of one constructed instance
Init ==
    /\ fs = OwnPackage
    /\ \E ps \in ParamsAlloc : Constructed(ps)
    /\ options \in Generators
    /\ Fresh

Next ==
    \/ \E precedingCss \in PrecedingCsss, source \in Sources, unit \in Units :
          AddInterpolation("e" \o ToString(Len(interpolations) + 1),
                           precedingCss, source, unit)
    \/ DoRuntimeReplacement

Spec == Init /\ [][Next]_vars

\* The constructor, and the replacements of what it constructed
InitCtor ==
    /\ fs \in FsStates
    /\ NotConstructed
    /\ options = NoGenerator
    /\ Fresh

NextCtor ==
    \/ \E ps \in ParamsAll : Construct(ps)
    \/ DoRuntimeReplacement
    \/ DoEvaltimeReplacement

SpecCtor == InitCtor /\ [][NextCtor]_vars

\* extractRules, one loop iteration a step
InitRules ==
    /\ fs = OwnPackage
    /\ \E ps \in ParamsReady : Constructed(ps)
    /\ options = NoGenerator
    /\ Fresh

NextRules ==
    \/ \E vc \in ValueCaches, loc \in Locs : ExtractRulesCall(vc, "color: red;", loc)
    \/ ExtractRulesLoop
    \/ ExtractRulesReturn
    \/ DoEvaltimeReplacement

\* extractRules is synchronous: once called, it runs on until it returns
FairSpecRules ==
    InitRules /\ [][NextRules]_vars
        /\ WF_vars(ExtractRulesLoop) /\ WF_vars(ExtractRulesReturn)

\* throwIfInvalid on the values of a template's interpolations
InitValidate ==
    /\ fs = OwnPackage
    /\ NotConstructed
    /\ options = NoGenerator
    /\ Fresh

NextValidate == \E v \in ValidatedValues : Validate(v)

SpecValidate == InitValidate /\ [][NextValidate]_vars

-----------------------------------------------------------------------------
(* The allocator's claims, under Spec *)

SamePair(i, j) ==
    calls[i].source = calls[j].source /\ calls[i].unit = calls[j].unit

\* C1: with no custom id generator, a pair requested again gets the id it
\* got the first time, whatever was requested in between, from the cache and
\* without advancing the counter.
C1_SecondRequestSameId ==
    options = NoGenerator =>
        \A i, j \in 1..Len(calls) :
            (i < j /\ SamePair(i, j)) =>
                /\ calls[j].id = calls[i].id
                /\ calls[j].hit
                /\ calls[j].after = calls[j].before

C1_Witness ==
    /\ options = NoGenerator
    /\ Len(calls) = 3
    /\ SamePair(1, 3)
    /\ ~SamePair(1, 2)
    /\ calls[3].id = calls[1].id

\* C2: with no custom id generator, two different (source, unit) pairs never
\* get the same id.
C2_DistinctPairsDistinctIds ==
    options = NoGenerator =>
        \A i, j \in 1..Len(calls) :
            ~SamePair(i, j) => calls[i].id # calls[j].id

\* the entry of propsObj.vars that the runtime replacement holds for the
\* interpolations i and j: the two have one id, and vars has that key
SharedVarsEntry(i, j) ==
    /\ interpolations[i].id = interpolations[j].id
    /\ (replacement # Undefined /\ replacement.isPure /\ replacement.seen >= j) =>
          LET entries == PropOf(replacement.node, "vars").value
          IN  /\ interpolations[i].id \in DOMAIN entries
              /\ Cardinality({k \in DOMAIN entries :
                    k \in {interpolations[i].id, interpolations[j].id}}) = 1

SameText(i, j) ==
    /\ interpolations[i].source = interpolations[j].source
    /\ interpolations[i].unit = interpolations[j].unit

C9_CounterDiscipline ==
    \A i \in 1..Len(calls) :
        LET d == calls[i].after - calls[i].before
        IN  IF calls[i].hit THEN d = 0
            ELSE IF calls[i].custom THEN ReadsIndex(options) \/ d = 0
            ELSE d = 1

-----------------------------------------------------------------------------
(* The constructor's claims, under SpecCtor *)

\* the constructor was called as styled(<one argument>)`...`
IsCallOfOne ==
    /\ stage # "none"
    /\ Len(params) = 3
    /\ params[1].kind = "callee"
    /\ params[2].kind = "call"
    /\ Len(params[2].args) = 1
    /\ params[3].kind = "template"

IsMemberTag ==
    /\ stage # "none"
    /\ Len(params) = 3
    /\ params[1].kind = "callee"
    /\ params[2].kind = "member"
    /\ params[3].kind = "template"

ArgKind == params[2].args[1].kind

IsLazyCall == IsCallOfOne /\ ArgKind = "LAZY"

IsConstStringCall ==
    IsCallOfOne /\ ArgKind = "CONST" /\ params[2].args[1].value.t = "string"

ImportedFrom == params[2].args[1].importedFrom

\* an import source matches: own manifest without a mask, or the resolved
\* file matches the declared mask
SourceMatches(imp) ==
    \/ importedPkg(imp) = "self" /\ maskOf(imp) = "undefined"
    \/ importedPkg(imp) # "none" /\ maskOf(imp) = "glob" /\ imp.resolves /\ imp.matches

\* the module resolution of an import source is attempted and fails
ResolutionFails(i) ==
    /\ \A j \in 1..(i - 1) : ~SourceMatches(ImportedFrom[j])
    /\ importedPkg(ImportedFrom[i]) # "none"
    /\ maskOf(ImportedFrom[i]) = "glob"
    /\ ~ImportedFrom[i].resolves

\* the set of known intrinsic element names: the names allTagsSet holds
KnownIntrinsicNames == {t \in MemberTags \cup ConstStrings \cup HtmlElements \cup SvgElements :
                            [type |-> "string", value |-> t] \in allTagsSet}

C7_ResolveFailureCountsAsMatch ==
    IsLazyCall =>
        \A i \in 1..Len(ImportedFrom) :
            ResolutionFails(i) =>
                /\ stage = "ready"
                /\ i \in warnings
                /\ ~component.nonLinaria

\* C7 amended: a failed module resolution does not fail the construction, is
\* logged, and makes that import source count as no match: the component is
\* marked foreign unless another import source matches.
C7_ResolveFailureCountsAsNoMatch ==
    IsLazyCall =>
        \A i \in 1..Len(ImportedFrom) :
            ResolutionFails(i) =>
                /\ stage = "ready"
                /\ i \in warnings
                /\ ~component.nonLinaria <=>
                        \E j \in 1..Len(ImportedFrom) :
                            j # i /\ SourceMatches(ImportedFrom[j])

C7_Witness ==
    /\ IsLazyCall
    /\ Len(ImportedFrom) = 1
    /\ ResolutionFails(1)
    /\ 1 \in warnings
    /\ component.nonLinaria

\* C8: a wrapped imported identifier is a non-foreign reference, registered
\* as a dependency, exactly when one of its import sources matches; else it
\* is a foreign reference and nothing is registered.
C8_ForeignUnlessSomeSourceMatches ==
    (IsLazyCall /\ Len(ImportedFrom) > 0) =>
        /\ stage = "ready"
        /\ component.type = "object"
        /\ component.node = params[2].args[1].ex
        /\ component.source = params[2].args[1].source
        /\ IF \E i \in 1..Len(ImportedFrom) : SourceMatches(ImportedFrom[i])
           THEN ~component.nonLinaria /\ dependencies = <<params[2].args[1]>>
           ELSE component.nonLinaria /\ dependencies = << >>

C8_Witness ==
    /\ IsLazyCall
    /\ Len(ImportedFrom) = 2
    /\ ~SourceMatches(ImportedFrom[1])
    /\ SourceMatches(ImportedFrom[2])
    /\ ~component.nonLinaria
    /\ dependencies = <<params[2].args[1]>>

\* a rule of the resolver determines a descriptor for the params
SomeRuleApplies ==
    \/ IsMemberTag
    \/ IsCallOfOne /\ ArgKind \in {"FUNCTION", "LAZY"}
    \/ IsConstStringCall

\* C10: a constant string argument yields the intrinsic tag of that string,
\* never the descriptor of a function argument; styled.tag yields the
\* intrinsic tag; and the construction fails with the invalid usage error
\* exactly when no rule determines a descriptor.
C10_ConstStringIsIntrinsicTag ==
    stage # "none" =>
        /\ IsConstStringCall =>
              /\ stage = "ready"
              /\ component = StringComponent(params[2].args[1].value.s)
              /\ component # construct(<<Callee, Call(<<FunctionValue>>), Template>>).component
        /\ IsMemberTag => (stage = "ready" /\ component = StringComponent(params[2].name))
        /\ stage = "failed" => (~SomeRuleApplies /\ error = "Invalid usage of styled tag")
        /\ (~SomeRuleApplies /\ stage # "skipped") => stage = "failed"

-----------------------------------------------------------------------------
(* The rule extractor's claim, under FairSpecRules *)

RECURSIVE ReachesEnd(_, _, _)
\* following extends from k ends at a value without __wyw_meta
ReachesEnd(vc, k, n) ==
    IF k = 0 THEN TRUE
    ELSE IF n = 0 THEN FALSE
    ELSE ReachesEnd(vc, vc.extends[k], n - 1)

RECURSIVE AncestorSegments(_, _, _)
\* "." + className of k and of each ancestor of k, outer to inner
AncestorSegments(vc, k, n) ==
    IF k = 0 \/ n = 0 THEN ""
    ELSE "." \o metaClassName(k) \o AncestorSegments(vc, vc.extends[k], n - 1)

IsStyledReference == component.type = "object" /\ ~component.nonLinaria

WalkStart == IF IsStyledReference THEN valueCache.get ELSE 0

ExpectedSelector ==
    "." \o className \o AncestorSegments(valueCache, WalkStart, NObj)

ExpectedRule ==
    [cssText |-> ruleArgs.cssText, className |-> className,
     displayName |-> displayName,
     start |-> IF ruleArgs.loc = Null THEN "null" ELSE ruleArgs.loc.start]

RuleIsRight ==
    pc = "returned" =>
        /\ DOMAIN rules = {ExpectedSelector}
        /\ rules[ExpectedSelector] = ExpectedRule
        /\ ~hasEvalMeta(value)

\* C5 as stated: extractRules always returns, with one rule whose selector
\* is "." + className and then "." + the class name of each ancestor.
C5_AlwaysReturnsTheRule ==
    /\ []RuleIsRight
    /\ (pc = "loop") ~> (pc = "returned")

\* C5 amended: when the extends chain of the wrapped value is acyclic,
\* extractRules returns, with one rule whose selector is "." + className and
\* then "." + the class name of each ancestor, outer to inner; on a cyclic
\* chain it never returns.
C5_ReturnsTheRuleIfAcyclic ==
    /\ []RuleIsRight
    /\ (pc = "loop" /\ ReachesEnd(valueCache, WalkStart, NObj)) ~> (pc = "returned")
    /\ [](pc = "loop" /\ ~ReachesEnd(valueCache, WalkStart, NObj) => [](pc = "loop"))

C5_Witness ==
    /\ pc = "returned"
    /\ IsStyledReference
    /\ valueCache.get = 1
    /\ valueCache.extends[1] = 2
    /\ valueCache.extends[2] = 0
    /\ DOMAIN rules = {".abc123.m1.m2"}

-----------------------------------------------------------------------------
(* The validator's claim, under SpecValidate *)

HasMessageAndStack(v) ==
    v.t \notin {"undefined", "null"} /\ v.message # "absent" /\ v.stack # "absent"

\* C6: exactly functions, strings, finite numbers and serializable values
\* are accepted; a rejected value with both a message and a stack field is
\* an evaluation error, every other rejected value an invalid interpolation.
C6_Verdicts ==
    \A i \in 1..Len(verdicts) :
        LET v == verdicts[i].value
            o == verdicts[i].outcome
        IN  /\ (o = "ok") <=>
                  \/ v.t \in {"function", "string"}
                  \/ v.t = "number" /\ v.v \notin {"NaN", "Infinity", "-Infinity"}
                  \/ v.serializable
            /\ o # "ok" =>
                  IF HasMessageAndStack(v) THEN o = "EvaluationError"
                  ELSE o = "InvalidInterpolationError"

=============================================================================
